---- MODULE Spec2Model ----
(***************************************************************************)
(* The two game-state managers of the Brawl Stars card game:               *)
(*   GameManager       (src/src/game_manager.py)        find the pair      *)
(*   MatchGameManager  (src/src/game_manager_match.py)  find the shown card*)
(* together with Card (src/src/card.py).  Each manager is one record       *)
(* variable whose fields carry the names of the Python attributes; `now`   *)
(* is the reading of time.time().  Time is counted in half seconds, the    *)
(* largest unit in which flip_delay (1.5 s), result_duration (1.5 s) and   *)
(* preview_duration (5.0 s) are all whole numbers.                         *)
(*                                                                         *)
(* MatchGameManager reads its one time stamp, phase_time, only in the       *)
(* difference current_time - phase_time, and the origin of time.time() is  *)
(* arbitrary.  States of MatchSpec that differ by a shift of that origin   *)
(* are therefore identified: after every step of the manager the origin is *)
(* moved to phase_time (MatchRebase), which changes no difference.         *)
(* GameManager's clock is left absolute.  start_time, which only draw()    *)
(* reads, is not modelled.                                                 *)
(*                                                                         *)
(* One manager runs at a time (the portal starts one game or the other),   *)
(* so there is one specification per manager: GMSpec and MatchSpec.  The   *)
(* manager that is not running is None.  LayoutSpec is a game over several *)
(* paddings, GMFairSpec the GameManager under the scheduling of the main   *)
(* loop.                                                                   *)
(*                                                                         *)
(* `app` is the game object that owns the manager and the                  *)
(* DifficultySelector (BrawlStarsMemoryGame in src/src/main.py,            *)
(* MatchCardGame in src/src/portal.py).  SelectorSpec runs the selector    *)
(* and starts games with the selected count; BoardSpec starts games with   *)
(* any requested count.  Both build their boards from all ten characters.  *)
(* In the specifications of a single manager app is None.                  *)
(***************************************************************************)
EXTENDS Integers, Sequences, FiniteSets, TLC

VARIABLES gm, mgm, now, app

vars == <<gm, mgm, now, app>>

None == "None"

\* ------------------------------------------------------------------ bounds
\* How many of the ten entries of character_images the model keeps.
NumCharacters == 2
\* Largest character_count a GameManager is constructed with.
MaxPairs == 2
\* The wall clock stops advancing at MaxTime half seconds (GameManager runs).
MaxTime == 4
\* handle_click is no longer offered once attempts has reached MaxAttempts.
MaxAttempts == 3
\* How many of the ten entries of MatchGameManager's character_images the
\* model keeps, and the largest character_count it is constructed with.
MatchNumCharacters == 3
MaxMatchCount == 3
\* The wall clock is not advanced more than MaxOverrun half seconds past the
\* end of the running phase's duration (MatchGameManager).
MaxOverrun == 2
\* A game is started with any character_count of -MaxRequested..MaxRequested
\* (BoardSpec).
MaxRequested == 12
\* How many outcomes of one random.shuffle the model keeps when the list is
\* the full list of ten characters (BoardSpec, SelectorSpec).
NumShuffles == 3

\* --------------------------------------------------------- program constants
screen_width == 1024
screen_height == 768
card_width == 150
card_height == 200
padding == 30
grid_width == 5
flip_delay == 3
preview_duration == 10
result_duration == 3
match_y_offset == 150
rounds_per_game == 10
min_characters == 5
max_characters == 10
default_character_count == 5
target_y == 120

AllCharacters ==
    << "Spacesuit", "Colt", "Leon", "Nita", "Robo",
       "Figure1", "Figure2", "Figure3", "Figure4", "Figure5" >>

characters == { AllCharacters[i] : i \in 1..NumCharacters }

match_characters == { AllCharacters[i] : i \in 1..MatchNumCharacters }

\* ---------------------------------------------------------------- helpers
Min(a, b) == IF a <= b THEN a ELSE b

\* math.ceil(n / grid_width) for n >= 0
CeilDiv(n, d) == (n + d - 1) \div d

Range(s) == { s[i] : i \in DOMAIN s }

\* All orders in which the elements of the set S can come out of a shuffle.
Orderings(S) ==
    { s \in [1..Cardinality(S) -> S] : \A i, j \in DOMAIN s : i # j => s[i] # s[j] }

\* list[:n] for n >= 0
Prefix(s, n) == SubSeq(s, 1, Min(n, Len(s)))

Max(a, b) == IF a >= b THEN a ELSE b

\* list[:n] for any integer n: a negative n counts from the end of the list.
PySlice(s, n) ==
    IF n >= 0 THEN SubSeq(s, 1, Min(n, Len(s)))
              ELSE SubSeq(s, 1, Max(Len(s) + n, 0))

\* The list s turned by r places.
Rotate(s, r) == [i \in 1..Len(s) |-> s[((i - 1 + r) % Len(s)) + 1]]

\* The outcomes of random.shuffle(s) the model keeps: NumShuffles turns of s.
ShuffleOutcomes(s) == { Rotate(s, r) : r \in 0..(NumShuffles - 1) }

\* ------------------------------------------------------------------- Card
NewCard(name) == [name |-> name, flipped |-> FALSE, matched |-> FALSE]

\* Card.flip without its test of matched.
flip_Unguarded(card) == [card EXCEPT !.flipped = ~card.flipped]

\* Card.flip
flip(card) ==
    IF ~card.matched THEN [card EXCEPT !.flipped = ~card.flipped] ELSE card

\* Position of the i-th card (1-based) of a board of n cards laid out with
\* padding pad, the grid moved down by y_offset.
CardPositionPadded(i, n, y_offset, pad) ==
    LET grid_height == CeilDiv(n, grid_width)
        start_x == (screen_width - ((card_width + pad) * grid_width - pad)) \div 2
        start_y == (screen_height - ((card_height + pad) * grid_height - pad)) \div 2
                   + y_offset
        row == (i - 1) \div grid_width
        col == (i - 1) % grid_width
    IN  << start_x + col * (card_width + pad),
           start_y + row * (card_height + pad) >>

\* The same with the default padding.
CardPosition(i, n, y_offset) == CardPositionPadded(i, n, y_offset, padding)

\* Card.contains_point for a card at position pos: both bounds inclusive.
contains_point(pos, point) ==
    /\ pos[1] <= point[1] /\ point[1] <= pos[1] + card_width
    /\ pos[2] <= point[2] /\ point[2] <= pos[2] + card_height

\* The click positions tried on a board of n cards: for every card its top
\* left corner, its (inclusive) bottom right corner, the pixel right of that
\* corner (in the padding) and the pixel above the top left corner.
ClickPositionsPadded(n, y_offset, pad) ==
    { << CardPositionPadded(i, n, y_offset, pad)[1] + d[1],
         CardPositionPadded(i, n, y_offset, pad)[2] + d[2] >> :
        i \in 1..n,
        d \in { <<0, 0>>, <<card_width, card_height>>,
                <<card_width + 1, card_height>>, <<0, -1>> } }

\* The same with the default padding.
ClickPositions(n, y_offset) == ClickPositionsPadded(n, y_offset, padding)

\* ------------------------------------------------------------ GameManager
\* GameManager._setup_cards: the boards the two shuffles can produce.
GMBoards(character_count) ==
    LET k == Min(character_count, Cardinality(characters))
    IN  { [i \in 1..(2 * k) |-> NewCard(pairs[i])] :
            pairs \in { p \in [1..(2 * k) -> characters] :
                          \A c \in Range(p) : Cardinality({ i \in 1..(2 * k) : p[i] = c }) = 2 } }

\* The boards of every character_count a run starts with, computed once.
GMBoardsByCount == [character_count \in 1..MaxPairs |-> GMBoards(character_count)]

\* GameManager.__init__ with the board _setup_cards produced.
NewGameManager(character_count, board, pad) ==
    [ character_count      |-> character_count,
      padding              |-> pad,
      cards                |-> board,
      flipped_cards        |-> << >>,
      score                |-> 0,
      attempts             |-> 0,
      game_over            |-> FALSE,
      flip_back_time       |-> 0,
      waiting_to_flip_back |-> FALSE,
      mismatch_time        |-> 0,
      is_mismatch          |-> FALSE ]

\* A GameManager of the default layout starts on any of its boards.
GMInit ==
    /\ now = 0
    /\ mgm = None
    /\ app = None
    /\ \E character_count \in 1..MaxPairs :
         \E board \in GMBoardsByCount[character_count] :
           gm = NewGameManager(character_count, board, padding)

\* GMClickIgnored without the test of len(flipped_cards).
GMClickIgnored_NoCountCheck(g) ==
    g.game_over \/ g.waiting_to_flip_back

\* The early return of handle_click: the click is dropped.
GMClickIgnored(g) ==
    g.game_over \/ Len(g.flipped_cards) >= 2 \/ g.waiting_to_flip_back

\* GMClickedCard that accepts a card whatever its flipped and matched flags.
GMClickedCard_AnyCard(g, position) ==
    LET hit == { i \in 1..Len(g.cards) :
                   contains_point(CardPositionPadded(i, Len(g.cards), 0, g.padding), position) }
    IN  IF hit = {} THEN 0 ELSE CHOOSE i \in hit : \A j \in hit : i <= j

\* The first card of the board that the loop of handle_click accepts, 0 if none.
GMClickedCard(g, position) ==
    LET hit == { i \in 1..Len(g.cards) :
                   /\ contains_point(CardPositionPadded(i, Len(g.cards), 0, g.padding), position)
                   /\ ~g.cards[i].flipped
                   /\ ~g.cards[i].matched }
    IN  IF hit = {} THEN 0 ELSE CHOOSE i \in hit : \A j \in hit : i <= j

\* GMMatchFound that counts the match twice.
GMMatchFound_DoubleScore(g) ==
    [g EXCEPT !.score = g.score + 2,
              !.cards = [i \in 1..Len(g.cards) |->
                           IF i \in Range(g.flipped_cards)
                           THEN [g.cards[i] EXCEPT !.matched = TRUE]
                           ELSE g.cards[i]],
              !.flipped_cards = << >>,
              !.is_mismatch = FALSE]

\* GMMatchFound that forgets to count the match.
GMMatchFound_NoScore(g) ==
    [g EXCEPT !.cards = [i \in 1..Len(g.cards) |->
                           IF i \in Range(g.flipped_cards)
                           THEN [g.cards[i] EXCEPT !.matched = TRUE]
                           ELSE g.cards[i]],
              !.flipped_cards = << >>,
              !.is_mismatch = FALSE]

\* handle_click, "Match found": g already holds the two flipped cards.
GMMatchFound(g) ==
    [g EXCEPT !.score = g.score + 1,
              !.cards = [i \in 1..Len(g.cards) |->
                           IF i \in Range(g.flipped_cards)
                           THEN [g.cards[i] EXCEPT !.matched = TRUE]
                           ELSE g.cards[i]],
              !.flipped_cards = << >>,
              !.is_mismatch = FALSE]

\* GMHandleClick whose loop goes on after the first accepted card: every
\* face-down unmatched card under the position is flipped.
GMHandleClick_NoBreak(g, position) ==
    IF GMClickIgnored(g)
    THEN g
    ELSE
      LET c == GMClickedCard(g, position) IN
      IF c = 0 THEN g
      ELSE [g EXCEPT !.cards = [i \in 1..Len(g.cards) |->
                                 IF /\ contains_point(
                                         CardPositionPadded(i, Len(g.cards), 0, g.padding),
                                         position)
                                    /\ ~g.cards[i].flipped
                                 THEN flip(g.cards[i])
                                 ELSE g.cards[i]],
                     !.flipped_cards = Append(g.flipped_cards, c)]

\* GameManager.handle_click as a function of the manager.
GMHandleClick(g, position) ==
    IF GMClickIgnored(g)
    THEN g
    ELSE
      LET c == GMClickedCard(g, position) IN
      IF c = 0 THEN g
      ELSE
        LET g1 == [g EXCEPT !.cards[c] = flip(g.cards[c]),
                            !.flipped_cards = Append(g.flipped_cards, c)]
        IN
        IF Len(g1.flipped_cards) = 2
        THEN
          LET g2 == [g1 EXCEPT !.attempts = g1.attempts + 1] IN
          IF g2.cards[g2.flipped_cards[1]].name = g2.cards[g2.flipped_cards[2]].name
          THEN GMMatchFound(g2)
          ELSE g2
        ELSE g1

\* GMFlipBackDue that compares with the start of the delay, not its end.
GMFlipBackDue_NoDelay(g, current_time) == current_time >= g.mismatch_time

\* update: the flip-back deadline has passed.
GMFlipBackDue(g, current_time) == current_time >= g.flip_back_time

\* GMFlipBack that leaves waiting_to_flip_back set.
GMFlipBack_StillWaiting(g) ==
    [g EXCEPT !.cards = [i \in 1..Len(g.cards) |->
                           IF i \in Range(g.flipped_cards)
                           THEN [g.cards[i] EXCEPT !.flipped = FALSE]
                           ELSE g.cards[i]],
              !.flipped_cards = << >>,
              !.is_mismatch = FALSE]

\* update, "Time to flip cards back".
GMFlipBack(g) ==
    [g EXCEPT !.cards = [i \in 1..Len(g.cards) |->
                           IF i \in Range(g.flipped_cards)
                           THEN [g.cards[i] EXCEPT !.flipped = FALSE]
                           ELSE g.cards[i]],
              !.flipped_cards = << >>,
              !.waiting_to_flip_back = FALSE,
              !.is_mismatch = FALSE]

\* GMAllMatched with any() in place of all().
GMAllMatched_Any(g) == \E i \in 1..Len(g.cards) : g.cards[i].matched

\* update, "Check for game over": all(card.matched for card in self.cards)
GMAllMatched(g) == \A i \in 1..Len(g.cards) : g.cards[i].matched

\* GameManager.update as a function of the manager and of time.time().
GMUpdate(g, current_time) ==
    LET g1 ==
          IF /\ Len(g.flipped_cards) = 2
             /\ \A k \in 1..Len(g.flipped_cards) : ~g.cards[g.flipped_cards[k]].matched
          THEN
            IF g.waiting_to_flip_back
            THEN IF GMFlipBackDue(g, current_time) THEN GMFlipBack(g) ELSE g
            ELSE [g EXCEPT !.flip_back_time = current_time + flip_delay,
                           !.waiting_to_flip_back = TRUE,
                           !.mismatch_time = current_time,
                           !.is_mismatch = TRUE]
          ELSE g
    IN  IF GMAllMatched(g1) THEN [g1 EXCEPT !.game_over = TRUE] ELSE g1

\* A left click on the running GameManager.
GMClick ==
    /\ gm.attempts < MaxAttempts
    /\ \E position \in ClickPositionsPadded(Len(gm.cards), 0, gm.padding) :
         gm' = GMHandleClick(gm, position)
    /\ UNCHANGED <<mgm, now, app>>

\* One frame: GameManager.update.
GMFrame ==
    /\ gm' = GMUpdate(gm, now)
    /\ UNCHANGED <<mgm, now, app>>

\* GMReset that leaves flipped_cards as it is.
GMReset_KeepsFlipped ==
    /\ \E board \in GMBoardsByCount[gm.character_count] :
         gm' = [gm EXCEPT !.score = 0,
                          !.attempts = 0,
                          !.game_over = FALSE,
                          !.cards = board]
    /\ UNCHANGED <<mgm, now, app>>

\* GameManager.reset: a fresh board, the counters and game_over cleared.
GMReset ==
    /\ \E board \in GMBoardsByCount[gm.character_count] :
         gm' = [gm EXCEPT !.flipped_cards = << >>,
                          !.score = 0,
                          !.attempts = 0,
                          !.game_over = FALSE,
                          !.cards = board]
    /\ UNCHANGED <<mgm, now, app>>

\* The wall clock advances by half a second.
GMTick ==
    /\ now < MaxTime
    /\ now' = now + 1
    /\ UNCHANGED <<gm, mgm, app>>

GMNext == GMClick \/ GMFrame \/ GMReset \/ GMTick

GMSpec == GMInit /\ [][GMNext]_vars

\* The GameManager as BrawlStarsMemoryGame.run drives it: update is called in
\* every pass of the loop and the wall clock advances, clicks arrive as the
\* player makes them, and reset is reached only through the R key while
\* game_over.  The player clicks during the first MaxTime half seconds; the
\* clock runs on past MaxTime for as long as a flip-back deadline lies ahead.
GMLoopClick ==
    /\ now <= MaxTime
    /\ GMClick

\* GMLoopReset without the test of game_over.
GMLoopReset_Anytime == GMReset

\* The R key: "event.key == pygame.K_r and ... self.game_manager.game_over"
GMLoopReset ==
    /\ gm.game_over
    /\ GMReset

GMLoopTick ==
    /\ now < MaxTime \/ (gm.waiting_to_flip_back /\ now < gm.flip_back_time)
    /\ now' = now + 1
    /\ UNCHANGED <<gm, mgm, app>>

GMLoopNext == GMLoopClick \/ GMFrame \/ GMLoopReset \/ GMLoopTick

\* The loop never stops calling update, and time never stops.
GMFairSpec ==
    /\ GMInit
    /\ [][GMLoopNext]_vars
    /\ WF_vars(GMFrame)
    /\ WF_vars(GMLoopTick)

\* The paddings a GameManager is constructed with: the default, none (the
\* inclusive rectangles of neighbours share an edge) and minus the card
\* width (the cards of a row lie on top of each other).
Paddings == { padding, 0, 0 - card_width }

\* GameManager.__init__ with any of the paddings.
LayoutInit ==
    /\ now = 0
    /\ mgm = None
    /\ app = None
    /\ \E pad \in Paddings :
         \E character_count \in 1..MaxPairs :
           \E board \in GMBoardsByCount[character_count] :
             gm = NewGameManager(character_count, board, pad)

\* The wall clock of a game on any layout: it stops at flip_delay, late
\* enough for a flip-back deadline to pass.
LayoutTick ==
    /\ now < flip_delay
    /\ now' = now + 1
    /\ UNCHANGED <<gm, mgm, app>>

\* Any layout, played as the main loop allows: reset while game_over only.
LayoutNext == GMClick \/ GMFrame \/ GMLoopReset \/ LayoutTick

LayoutSpec == LayoutInit /\ [][LayoutNext]_vars


\* ------------------------------------------------------- MatchGameManager
\* MatchGameManager._setup_cards: one card per selected character, in the
\* order of the shuffle, every card face-up for the preview.
MatchBoards(character_count) ==
    { LET selected == Prefix(order, Min(character_count, Len(order)))
      IN  [i \in 1..Len(selected) |-> [NewCard(selected[i]) EXCEPT !.flipped = TRUE]] :
        order \in Orderings(match_characters) }

\* The boards of every character_count a run starts with, computed once.
MatchBoardsByCount ==
    [character_count \in 1..MaxMatchCount |-> MatchBoards(character_count)]

\* MatchGameManager.__init__
MatchInit ==
    /\ now = 0
    /\ gm = None
    /\ app = None
    /\ \E character_count \in 1..MaxMatchCount :
         \E board \in MatchBoardsByCount[character_count] :
           mgm = [ character_count    |-> character_count,
                   cards              |-> board,
                   current_card       |-> << >>,
                   previous_card_name |-> None,
                   score              |-> 0,
                   total_rounds       |-> 0,
                   game_over          |-> FALSE,
                   phase              |-> "preview",
                   phase_time         |-> now,
                   is_correct_match   |-> FALSE ]

\* AllFaceDown that leaves the cards as they are.
AllFaceDown_Skipped(cards) == cards

\* "for card in self.cards: card.flipped = False"
AllFaceDown(cards) == [i \in 1..Len(cards) |-> [cards[i] EXCEPT !.flipped = FALSE]]

\* MatchAvailableNames without the filter on previous_card_name.
MatchAvailableNames_NoFilter(m) == { m.cards[i].name : i \in 1..Len(m.cards) }

\* _choose_target_card: the names random.choice can return.
MatchAvailableNames(m) ==
    LET available_cards ==
          IF m.previous_card_name # None /\ Len(m.cards) > 1
          THEN { i \in 1..Len(m.cards) : m.cards[i].name # m.previous_card_name }
          ELSE 1..Len(m.cards)
    IN  { m.cards[i].name : i \in available_cards }

\* MatchGameManager._choose_target_card: every manager it can leave behind.
MatchChooseTargetCard(m) ==
    IF Len(m.cards) = 0
    THEN {m}
    ELSE { [m EXCEPT !.previous_card_name = name,
                     !.current_card = << [NewCard(name) EXCEPT !.flipped = TRUE] >>] :
             name \in MatchAvailableNames(m) }

\* _choose_target_card: the position of the target card, centred at the top.
TargetPosition == << (screen_width - card_width) \div 2, target_y >>

\* MatchClickIgnored without the test of the phase.
MatchClickIgnored_NoPhaseTest(m) == m.game_over

\* handle_click accepts clicks in the playing phase only.
MatchClickIgnored(m) == m.phase # "playing" \/ m.game_over

\* The first card of the board that the loop of handle_click accepts, 0 if none.
MatchClickedCard(m, position) ==
    LET hit == { i \in 1..Len(m.cards) :
                   /\ contains_point(CardPosition(i, Len(m.cards), match_y_offset), position)
                   /\ ~m.cards[i].flipped }
    IN  IF hit = {} THEN 0 ELSE CHOOSE i \in hit : \A j \in hit : i <= j

\* MatchHandleClick that counts every pick as a correct one.
MatchHandleClick_AlwaysCorrect(m, position, current_time) ==
    IF MatchClickIgnored(m)
    THEN m
    ELSE
      LET c == MatchClickedCard(m, position) IN
      IF c = 0 THEN m
      ELSE [m EXCEPT !.cards[c] = flip(m.cards[c]),
                     !.total_rounds = m.total_rounds + 1,
                     !.score = m.score + 1,
                     !.is_correct_match = TRUE,
                     !.phase = "showing_result",
                     !.phase_time = current_time]

\* MatchGameManager.handle_click as a function of the manager and time.time().
MatchHandleClick(m, position, current_time) ==
    IF MatchClickIgnored(m)
    THEN m
    ELSE
      LET c == MatchClickedCard(m, position) IN
      IF c = 0 THEN m
      ELSE
        LET m1 == [m EXCEPT !.cards[c] = flip(m.cards[c]),
                            !.total_rounds = m.total_rounds + 1]
            m2 == IF m1.current_card # << >> /\ m1.cards[c].name = m1.current_card[1].name
                  THEN [m1 EXCEPT !.score = m1.score + 1, !.is_correct_match = TRUE]
                  ELSE [m1 EXCEPT !.is_correct_match = FALSE]
        IN  [m2 EXCEPT !.phase = "showing_result", !.phase_time = current_time]

\* MatchPreviewOver with the duration of the result display.
MatchPreviewOver_ResultDuration(m, current_time) ==
    current_time - m.phase_time >= result_duration

\* update: the preview has lasted preview_duration.
MatchPreviewOver(m, current_time) == current_time - m.phase_time >= preview_duration

\* update: the result has been shown for result_duration.
MatchResultOver(m, current_time) == current_time - m.phase_time >= result_duration

\* MatchGameOverCheck with > in place of >=.
MatchGameOverCheck_OffByOne(m) ==
    IF m.total_rounds > rounds_per_game /\ m.phase # "game_over"
    THEN [m EXCEPT !.game_over = TRUE, !.phase = "game_over"]
    ELSE m

\* update, "Check for game over condition".
MatchGameOverCheck(m) ==
    IF m.total_rounds >= rounds_per_game /\ m.phase # "game_over"
    THEN [m EXCEPT !.game_over = TRUE, !.phase = "game_over"]
    ELSE m

\* MatchGameManager.update: every manager it can leave behind.
MatchUpdate(m, current_time) ==
    LET after_phase ==
          IF m.phase = "preview"
          THEN
            IF MatchPreviewOver(m, current_time)
            THEN { [m1 EXCEPT !.phase = "playing"] :
                     m1 \in MatchChooseTargetCard([m EXCEPT !.cards = AllFaceDown(m.cards)]) }
            ELSE {m}
          ELSE IF m.phase = "showing_result"
          THEN
            IF MatchResultOver(m, current_time)
            THEN LET m1 == [m EXCEPT !.cards = AllFaceDown(m.cards),
                                     !.current_card = << >>,
                                     !.phase = "playing"]
                 IN  IF ~m1.game_over THEN MatchChooseTargetCard(m1) ELSE {m1}
            ELSE {m}
          ELSE {m}
    IN  { MatchGameOverCheck(m1) : m1 \in after_phase }

\* MatchGameManager.reset as a function of the manager, the new board and
\* time.time().
MatchResetTo(m, board, current_time) ==
    [m EXCEPT !.score = 0,
              !.total_rounds = 0,
              !.game_over = FALSE,
              !.previous_card_name = None,
              !.phase = "preview",
              !.phase_time = current_time,
              !.cards = board]

\* The manager m and the clock reading t with the origin of the clock moved
\* to m.phase_time.
MatchRebase(m, t) ==
    /\ mgm' = [m EXCEPT !.phase_time = 0]
    /\ now' = t - m.phase_time

\* A left click on the running MatchGameManager.
MatchClick ==
    /\ \E position \in ClickPositions(Len(mgm.cards), match_y_offset) :
         MatchRebase(MatchHandleClick(mgm, position, now), now)
    /\ UNCHANGED <<gm, app>>

\* One frame: MatchGameManager.update.
MatchFrame ==
    /\ \E m \in MatchUpdate(mgm, now) : MatchRebase(m, now)
    /\ UNCHANGED <<gm, app>>

\* The R key: MatchGameManager.reset.
MatchReset ==
    /\ \E board \in MatchBoardsByCount[mgm.character_count] :
         MatchRebase(MatchResetTo(mgm, board, now), now)
    /\ UNCHANGED <<gm, app>>

\* The wall clock advances by half a second.
MatchTick ==
    /\ now - mgm.phase_time <
         (IF mgm.phase = "preview" THEN preview_duration ELSE result_duration) + MaxOverrun
    /\ now' = now + 1
    /\ UNCHANGED <<gm, mgm, app>>

MatchNext == MatchClick \/ MatchFrame \/ MatchReset \/ MatchTick

MatchSpec == MatchInit /\ [][MatchNext]_vars


\* --------------------------------------- the two games and their selector
\* _setup_cards of both managers: characters[:min(character_count, len(characters))]
SelectedChars(shuffled, character_count) ==
    PySlice(shuffled, Min(character_count, Len(shuffled)))

\* GMPairs that holds every selected character once.
GMPairs_Once(selected_chars) == selected_chars

\* GameManager._setup_cards: pairs = selected_chars + selected_chars
GMPairs(selected_chars) == selected_chars \o selected_chars

\* GameManager._setup_cards over the ten characters: the boards it can
\* produce for a character_count.
GMSetupCards(character_count) ==
    { [i \in 1..Len(pairs) |-> NewCard(pairs[i])] :
        pairs \in UNION { ShuffleOutcomes(GMPairs(SelectedChars(shuffled, character_count))) :
                            shuffled \in ShuffleOutcomes(AllCharacters) } }

\* MatchGameManager._setup_cards over the ten characters.
MatchSetupCards(character_count) ==
    { [i \in 1..Len(selected) |-> [NewCard(selected[i]) EXCEPT !.flipped = TRUE]] :
        selected \in { SelectedChars(shuffled, character_count) :
                          shuffled \in ShuffleOutcomes(AllCharacters) } }

\* MatchGameManager.__init__ with the board _setup_cards produced.
NewMatchGameManager(character_count, board, current_time) ==
    [ character_count    |-> character_count,
      cards              |-> board,
      current_card       |-> << >>,
      previous_card_name |-> None,
      score              |-> 0,
      total_rounds       |-> 0,
      game_over          |-> FALSE,
      phase              |-> "preview",
      phase_time         |-> current_time,
      is_correct_match   |-> FALSE ]

\* DifficultySelector.__init__
NewDifficultySelector(min, max) ==
    [ min_characters |-> min, max_characters |-> max, selected_count |-> min ]

\* BrawlStarsMemoryGame.__init__ (game = "memory") and MatchCardGame.__init__
\* (game = "match"), entered into run().
NewApp(game) ==
    [ game                |-> game,
      running             |-> TRUE,
      game_phase          |-> "difficulty_select",
      character_count     |-> default_character_count,
      difficulty_selector |-> NewDifficultySelector(min_characters, max_characters) ]

\* No manager exists before a difficulty is selected.
AppInit ==
    /\ now = 0
    /\ gm = None
    /\ mgm = None
    /\ \E game \in {"memory", "match"} : app = NewApp(game)

\* _start_game_with_character_count of the running game.
StartGameWithCharacterCount(character_count) ==
    /\ app' = [app EXCEPT !.character_count = character_count,
                          !.game_phase = "playing"]
    /\ IF app.game = "memory"
       THEN /\ \E board \in GMSetupCards(character_count) :
                 gm' = NewGameManager(character_count, board, padding)
            /\ UNCHANGED mgm
       ELSE /\ \E board \in MatchSetupCards(character_count) :
                 mgm' = NewMatchGameManager(character_count, board, now)
            /\ UNCHANGED gm
    /\ UNCHANGED now

\* A game is started with a requested character_count.
BoardStart ==
    \E character_count \in (0 - MaxRequested)..MaxRequested :
      StartGameWithCharacterCount(character_count)

BoardNext == BoardStart

BoardSpec == AppInit /\ [][BoardNext]_vars

\* DifficultySelector.decrement_count
decrement_count(s) ==
    IF s.selected_count > s.min_characters
    THEN [s EXCEPT !.selected_count = s.selected_count - 1]
    ELSE s

\* increment_count with <= in place of <.
increment_count_OffByOne(s) ==
    IF s.selected_count <= s.max_characters
    THEN [s EXCEPT !.selected_count = s.selected_count + 1]
    ELSE s

\* DifficultySelector.increment_count
increment_count(s) ==
    IF s.selected_count < s.max_characters
    THEN [s EXCEPT !.selected_count = s.selected_count + 1]
    ELSE s

\* The selector's events reach it in the difficulty_select phase of a
\* running game.
SelectorShown == app.running /\ app.game_phase = "difficulty_select"

\* The "-" button or the left arrow key.
SelectorDecrement ==
    /\ SelectorShown
    /\ app' = [app EXCEPT !.difficulty_selector = decrement_count(app.difficulty_selector)]
    /\ UNCHANGED <<gm, mgm, now>>

\* The "+" button or the right arrow key.
SelectorIncrement ==
    /\ SelectorShown
    /\ app' = [app EXCEPT !.difficulty_selector = increment_count(app.difficulty_selector)]
    /\ UNCHANGED <<gm, mgm, now>>

\* confirm_selection: on_select(self.selected_count), on_select being
\* _start_game_with_character_count.
SelectorConfirm ==
    /\ SelectorShown
    /\ StartGameWithCharacterCount(app.difficulty_selector.selected_count)

\* go_back: on_back(), on_back being _exit_to_menu.
SelectorGoBack ==
    /\ SelectorShown
    /\ app' = [app EXCEPT !.running = FALSE]
    /\ UNCHANGED <<gm, mgm, now>>

\* The Escape key while playing: back to the difficulty selection.
AppEscape ==
    /\ app.running
    /\ app.game_phase = "playing"
    /\ app' = [app EXCEPT !.game_phase = "difficulty_select"]
    /\ UNCHANGED <<gm, mgm, now>>

SelectorNext ==
    SelectorDecrement \/ SelectorIncrement \/ SelectorConfirm \/ SelectorGoBack \/ AppEscape

SelectorSpec == AppInit /\ [][SelectorNext]_vars

\* ===================================================== GameManager claims
\* Indices of the cards that are face-up and not matched.
GMFaceUpUnmatched(g) ==
    { i \in 1..Len(g.cards) : g.cards[i].flipped /\ ~g.cards[i].matched }

GMMatchedCards(g) == { i \in 1..Len(g.cards) : g.cards[i].matched }

\* Two cards are flipped and neither is matched: a mismatch is on display.
GMMismatchShown(g) ==
    /\ Len(g.flipped_cards) = 2
    /\ \A k \in 1..2 : ~g.cards[g.flipped_cards[k]].matched

\* The step is a call of reset (GMReset, with the new board read off gm').
GMResetStep ==
    /\ gm'.cards \in GMBoardsByCount[gm.character_count]
    /\ gm' = [gm EXCEPT !.flipped_cards = << >>,
                        !.score = 0,
                        !.attempts = 0,
                        !.game_over = FALSE,
                        !.cards = gm'.cards]
    /\ UNCHANGED <<mgm, now, app>>

\* C1: in every state reachable by handle_click, update and reset, at most
\* two cards are face-up and unmatched, and len(flipped_cards) is 0, 1 or 2.
C1_AtMostTwoFaceUp ==
    /\ Cardinality(GMFaceUpUnmatched(gm)) <= 2
    /\ Len(gm.flipped_cards) \in {0, 1, 2}

\* Two cards of different names are face-up, unmatched and in flipped_cards.
C1_Witness ==
    /\ Cardinality(GMFaceUpUnmatched(gm)) = 2
    /\ Len(gm.flipped_cards) = 2
    /\ gm.attempts >= 1

\* C2: once a card is matched, no handle_click and no update changes its
\* flipped or matched flag: it stays face-up and matched until reset replaces
\* the board; Card.flip leaves a matched card as it is.
C2_MatchedIsFinal ==
    [][ \/ \A i \in GMMatchedCards(gm) :
             /\ gm.cards[i].flipped
             /\ gm'.cards[i] = gm.cards[i]
             /\ flip(gm.cards[i]) = gm.cards[i]
        \/ GMResetStep ]_vars

\* One pair is matched and has stayed so while a further card was flipped.
C2_Witness ==
    /\ gm.score = 1
    /\ Cardinality(GMMatchedCards(gm)) = 2
    /\ \A i \in GMMatchedCards(gm) : gm.cards[i].flipped
    /\ Len(gm.flipped_cards) = 1
    /\ Cardinality(GMFaceUpUnmatched(gm)) = 1

\* C5: while a mismatch is shown, every step other than reset either leaves
\* the cards, flipped_cards, score and attempts as they are (the update that
\* starts the wait setting flip_back_time to its time plus flip_delay, and
\* the deadline then staying put), or is the update that observes
\* current_time >= flip_back_time while waiting: it turns both cards
\* face-down, empties flipped_cards and clears waiting_to_flip_back and
\* is_mismatch.  A mismatch never starts with the wait already running.
C5_FlipBackOnlyAtDeadline ==
    [][ GMMismatchShown(gm) =>
          \/ GMResetStep
          \/ /\ gm'.cards = gm.cards
             /\ gm'.flipped_cards = gm.flipped_cards
             /\ gm'.score = gm.score
             /\ gm'.attempts = gm.attempts
             /\ (~gm.waiting_to_flip_back /\ gm'.waiting_to_flip_back
                   => gm'.flip_back_time = now + flip_delay)
             /\ (gm.waiting_to_flip_back
                   => /\ gm'.waiting_to_flip_back
                      /\ gm'.flip_back_time = gm.flip_back_time
                      /\ gm.flip_back_time = gm.mismatch_time + flip_delay
                      /\ gm.mismatch_time <= now)
          \/ /\ gm.waiting_to_flip_back
             /\ now >= gm.flip_back_time
             /\ gm.flip_back_time = gm.mismatch_time + flip_delay
             /\ \A i \in 1..Len(gm.cards) :
                  gm'.cards[i] = IF i \in Range(gm.flipped_cards)
                                 THEN [gm.cards[i] EXCEPT !.flipped = FALSE]
                                 ELSE gm.cards[i]
             /\ gm'.flipped_cards = << >>
             /\ ~gm'.waiting_to_flip_back
             /\ ~gm'.is_mismatch
             /\ gm'.score = gm.score
             /\ gm'.attempts = gm.attempts ]_vars

\* A mismatch has been shown and flipped back: no card is face-up, one
\* attempt is counted, nothing is matched and the deadline has passed.
C5_Witness ==
    /\ gm.attempts = 1
    /\ gm.score = 0
    /\ GMFaceUpUnmatched(gm) = {}
    /\ gm.flipped_cards = << >>
    /\ ~gm.waiting_to_flip_back
    /\ ~gm.is_mismatch
    /\ gm.flip_back_time = gm.mismatch_time + flip_delay
    /\ now >= gm.flip_back_time
    /\ now >= flip_delay

\* The cards a step turns from face-down to face-up.
GMTurnedUp == { i \in 1..Len(gm.cards) : ~gm.cards[i].flipped /\ gm'.cards[i].flipped }

\* C6: a click that flips a second card adds exactly 1 to attempts; if the
\* two cards have the same name it also adds exactly 1 to score, marks
\* exactly those two cards matched and empties flipped_cards; otherwise score
\* and the matched cards are unchanged.  A click that flips a first card
\* changes neither score nor attempts.
C6_SecondFlipScoring ==
    [][ \A c \in GMTurnedUp :
          /\ GMTurnedUp = {c}
          /\ Len(gm.flipped_cards) \in {0, 1}
          /\ Len(gm.flipped_cards) = 0 =>
               /\ gm'.score = gm.score
               /\ gm'.attempts = gm.attempts
               /\ gm'.flipped_cards = <<c>>
               /\ GMMatchedCards(gm') = GMMatchedCards(gm)
          /\ Len(gm.flipped_cards) = 1 =>
               /\ gm'.attempts = gm.attempts + 1
               /\ IF gm.cards[gm.flipped_cards[1]].name = gm.cards[c].name
                  THEN /\ gm'.score = gm.score + 1
                       /\ GMMatchedCards(gm') = GMMatchedCards(gm) \cup {gm.flipped_cards[1], c}
                       /\ gm.flipped_cards[1] # c
                       /\ gm'.flipped_cards = << >>
                  ELSE /\ gm'.score = gm.score
                       /\ GMMatchedCards(gm') = GMMatchedCards(gm)
                       /\ gm'.flipped_cards = <<gm.flipped_cards[1], c>> ]_vars

\* Both outcomes of a second flip have happened in one game: a mismatch
\* (attempts ahead of score) and a match.
C6_Witness ==
    /\ gm.attempts = 2
    /\ gm.score = 1
    /\ Cardinality(GMMatchedCards(gm)) = 2

\* C7: game_over holds only if every card is matched and score equals the
\* number of pairs, and an update that finds every card matched sets
\* game_over.
C7_GameOverIffAllMatched ==
    /\ [](gm.game_over => /\ GMMatchedCards(gm) = DOMAIN gm.cards
                          /\ 2 * gm.score = Len(gm.cards))
    /\ [](GMMatchedCards(gm) = DOMAIN gm.cards <=> 2 * gm.score = Len(gm.cards))
    /\ [][ (/\ GMMatchedCards(gm) = DOMAIN gm.cards
            /\ gm' = GMUpdate(gm, now)
            /\ now' = now)
             => gm'.game_over ]_vars

\* A board of two pairs has been played to the end.
C7_Witness ==
    /\ gm.game_over
    /\ gm.score = 2
    /\ Len(gm.cards) = 4
    /\ GMMatchedCards(gm) = 1..4

\* ================================================ MatchGameManager claims
\* Indices of the board cards that are face-up and not matched.
MatchFaceUp(m) == { i \in 1..Len(m.cards) : m.cards[i].flipped /\ ~m.cards[i].matched }

\* C3 as stated: in every reachable state of MatchGameManager at most two
\* board cards are face-up and unmatched.
C3_AtMostTwoFaceUpAlways == Cardinality(MatchFaceUp(mgm)) <= 2

\* C3, amended: in every reachable state outside the preview phase (playing,
\* showing_result, game_over) at most two board cards are face-up and
\* unmatched; in the preview phase every board card is face-up.
C3_AtMostTwoFaceUpAfterPreview ==
    IF mgm.phase = "preview"
    THEN MatchFaceUp(mgm) = DOMAIN mgm.cards
    ELSE Cardinality(MatchFaceUp(mgm)) <= 2

\* On a board of three cards, a second pick is on display: one card face-up.
C3_Witness ==
    /\ Len(mgm.cards) = 3
    /\ mgm.phase = "showing_result"
    /\ mgm.total_rounds = 2
    /\ Cardinality(MatchFaceUp(mgm)) = 1

\* C4: phase is one of the four phase names, and unless phase = playing and
\* game_over = False, handle_click at any position leaves cards, score,
\* total_rounds, phase, phase_time and current_card as they are.
C4_PhaseGatesClicks ==
    /\ mgm.phase \in {"preview", "playing", "showing_result", "game_over"}
    /\ (mgm.phase # "playing" \/ mgm.game_over) =>
         \A position \in ClickPositions(Len(mgm.cards), match_y_offset) :
           LET m == MatchHandleClick(mgm, position, now) IN
             /\ m.cards = mgm.cards
             /\ m.score = mgm.score
             /\ m.total_rounds = mgm.total_rounds
             /\ m.phase = mgm.phase
             /\ m.phase_time = mgm.phase_time
             /\ m.current_card = mgm.current_card

\* A result is on display while another card lies face-down under the click
\* positions, and time has moved on since the pick.
C4_Witness ==
    /\ mgm.phase = "showing_result"
    /\ \E i \in 1..Len(mgm.cards) : ~mgm.cards[i].flipped
    /\ now > mgm.phase_time

\* C8: total_rounds never exceeds 10, game_over holds exactly when
\* phase = game_over and then total_rounds is 10, and every update called
\* with total_rounds = 10 leaves game_over = True and phase = game_over.
C8_TenRounds ==
    /\ mgm.total_rounds <= 10
    /\ mgm.game_over <=> mgm.phase = "game_over"
    /\ mgm.game_over => mgm.total_rounds >= 10
    /\ mgm.total_rounds >= 10 =>
         \A m \in MatchUpdate(mgm, now) : m.game_over /\ m.phase = "game_over"

\* The tenth pick has been made and update has ended the game.
C8_Witness ==
    /\ mgm.total_rounds = 10
    /\ mgm.game_over
    /\ mgm.phase = "game_over"

\* The step is a call of reset: only reset enters the preview phase.
MatchResetStep == mgm'.phase = "preview" /\ mgm'.total_rounds = 0

\* C9: a step other than reset that leaves showing_result is taken no
\* earlier than result_duration after the pick and leaves every board card
\* face-down.
C9_ResultShownForDuration ==
    [][ (mgm.phase = "showing_result" /\ mgm'.phase # "showing_result" /\ ~MatchResetStep)
          => /\ now - mgm.phase_time >= result_duration
             /\ MatchFaceUp(mgm') = {} ]_vars

\* C10: in the preview phase every board card is face-up and nothing has
\* been played; a step that leaves it is an update that observes
\* current_time - phase_time >= preview_duration, turns every board card
\* face-down, chooses a card of the board as target and enters playing.
C10_PreviewLastsItsDuration ==
    /\ [](mgm.phase = "preview" =>
            /\ MatchFaceUp(mgm) = DOMAIN mgm.cards
            /\ mgm.total_rounds = 0
            /\ mgm.score = 0
            /\ ~mgm.game_over)
    /\ [][ (mgm.phase = "preview" /\ mgm'.phase # "preview")
             => /\ now - mgm.phase_time >= preview_duration
                /\ mgm'.phase = "playing"
                /\ mgm'.cards = [i \in DOMAIN mgm.cards |->
                                   [mgm.cards[i] EXCEPT !.flipped = FALSE]]
                /\ mgm'.current_card # << >>
                /\ \E i \in DOMAIN mgm.cards :
                     mgm'.current_card[1].name = mgm.cards[i].name
                /\ mgm'.previous_card_name = mgm'.current_card[1].name
                /\ mgm'.total_rounds = 0
                /\ \E m \in MatchUpdate(mgm, now) :
                     mgm' = [m EXCEPT !.phase_time = 0] ]_vars

\* The preview has ended: playing, nothing picked yet, every card face-down,
\* a target on display, preview_duration on the clock.
C10_Witness ==
    /\ mgm.phase = "playing"
    /\ mgm.total_rounds = 0
    /\ MatchFaceUp(mgm) = {}
    /\ mgm.current_card # << >>
    /\ now - mgm.phase_time >= preview_duration

\* The board cards whose rectangle (bounds inclusive) holds position.
MatchCardsAt(m, position) ==
    { i \in 1..Len(m.cards) :
        contains_point(CardPosition(i, Len(m.cards), match_y_offset), position) }

\* C11: in the playing phase a click on a board card flips exactly that one
\* card face-up, adds 1 to total_rounds and sets phase to showing_result; it
\* adds 1 to score and sets is_correct_match exactly when the name of the
\* clicked card is current_card.name, and otherwise leaves score as it is
\* and clears is_correct_match.
C11_PickScoring ==
    (mgm.phase = "playing" /\ ~mgm.game_over) =>
      /\ mgm.current_card # << >>
      /\ \A position \in ClickPositions(Len(mgm.cards), match_y_offset) :
           \A c \in MatchCardsAt(mgm, position) :
             LET m == MatchHandleClick(mgm, position, now) IN
               /\ MatchCardsAt(mgm, position) = {c}
               /\ ~mgm.cards[c].flipped
               /\ m.cards = [mgm.cards EXCEPT ![c].flipped = TRUE]
               /\ m.total_rounds = mgm.total_rounds + 1
               /\ m.phase = "showing_result"
               /\ IF mgm.cards[c].name = mgm.current_card[1].name
                  THEN m.score = mgm.score + 1 /\ m.is_correct_match
                  ELSE m.score = mgm.score /\ ~m.is_correct_match

\* Playing resumes after a correct and a wrong pick: the next click is
\* scored against a new target.
C11_Witness ==
    /\ mgm.phase = "playing"
    /\ mgm.total_rounds = 2
    /\ mgm.score = 1
    /\ Len(mgm.cards) >= 2
    /\ mgm.current_card # << >>


\* C12: whenever the board has more than one card, the target chosen when a
\* result display ends has a name different from the target of the round just
\* played; while a round runs, previous_card_name is the name of its target.
C12_NoTargetTwiceInARow ==
    /\ [](mgm.phase \in {"playing", "showing_result"} =>
            /\ mgm.current_card # << >>
            /\ mgm.previous_card_name = mgm.current_card[1].name)
    /\ [][ (/\ mgm.phase = "showing_result"
            /\ now - mgm.phase_time >= result_duration
            /\ mgm'.phase \in {"playing", "game_over"}
            /\ Len(mgm.cards) > 1)
             => /\ mgm'.current_card # << >>
                /\ mgm'.current_card[1].name # mgm.current_card[1].name
                /\ \E i \in DOMAIN mgm'.cards :
                     mgm'.cards[i].name = mgm'.current_card[1].name ]_vars

\* The third target of a game on a board of two cards is on display.
C12_Witness ==
    /\ mgm.phase = "playing"
    /\ mgm.total_rounds = 2
    /\ Len(mgm.cards) = 2
    /\ mgm.current_card # << >>
    /\ mgm.previous_card_name = mgm.current_card[1].name

\* ===================================================== the two resets
\* C13: after GameManager.reset, from whatever state it is called in, the
\* manager is a freshly constructed one (flipped_cards empty, score and
\* attempts 0, game_over, waiting_to_flip_back and is_mismatch False, every
\* card face-down and unmatched), so a click on any card is accepted.
C13_ResetIsFresh ==
    [][ GMResetStep =>
          /\ gm'.flipped_cards = << >>
          /\ gm'.score = 0
          /\ gm'.attempts = 0
          /\ ~gm'.game_over
          /\ ~gm'.waiting_to_flip_back
          /\ ~gm'.is_mismatch
          /\ \A i \in DOMAIN gm'.cards : ~gm'.cards[i].flipped /\ ~gm'.cards[i].matched
          /\ \A i \in DOMAIN gm'.cards :
               LET g == GMHandleClick(gm', CardPositionPadded(i, Len(gm'.cards), 0, gm'.padding))
               IN  g.cards[i].flipped ]_vars

\* The step is a call of MatchGameManager.reset (MatchReset, with the new
\* board read off mgm').
MatchResetCall ==
    /\ mgm'.cards \in MatchBoardsByCount[mgm.character_count]
    /\ mgm' = [MatchResetTo(mgm, mgm'.cards, now) EXCEPT !.phase_time = 0]
    /\ now' = 0

\* C14: after MatchGameManager.reset, from whatever state it is called in,
\* the manager is a freshly constructed one: phase preview, score and
\* total_rounds 0, game_over False, previous_card_name and current_card None,
\* is_correct_match False, every card of the new board face-up.
C14_MatchResetIsFresh ==
    [][ MatchResetCall =>
          /\ mgm'.phase = "preview"
          /\ mgm'.score = 0
          /\ mgm'.total_rounds = 0
          /\ ~mgm'.game_over
          /\ mgm'.previous_card_name = None
          /\ mgm'.current_card = << >>
          /\ ~mgm'.is_correct_match
          /\ \A i \in DOMAIN mgm'.cards : mgm'.cards[i].flipped ]_vars

\* ================================================== board construction
\* The names on a board.
BoardNames(cards) == { cards[i].name : i \in DOMAIN cards }

\* The number of cards of a board that carry name.
CardsNamed(cards, name) == Cardinality({ i \in DOMAIN cards : cards[i].name = name })

\* The board of the game that has been started.
StartedBoard == IF app.game = "memory" THEN gm.cards ELSE mgm.cards

C16_SelectedCountInRange ==
    /\ [](LET s == app.difficulty_selector IN
            /\ s.min_characters = 5 /\ s.max_characters = 10
            /\ s.min_characters <= s.selected_count
            /\ s.selected_count <= s.max_characters
            /\ (s.selected_count = s.max_characters => increment_count(s) = s)
            /\ (s.selected_count = s.min_characters => decrement_count(s) = s)
            /\ (s.selected_count < s.max_characters =>
                  increment_count(s).selected_count = s.selected_count + 1)
            /\ (s.selected_count > s.min_characters =>
                  decrement_count(s).selected_count = s.selected_count - 1))
    /\ [][ /\ (app.game_phase = "difficulty_select" /\ app'.game_phase = "playing") =>
               /\ app'.character_count = app.difficulty_selector.selected_count
               /\ app'.difficulty_selector = app.difficulty_selector
               /\ (app.game = "memory" =>
                     gm'.character_count = app.difficulty_selector.selected_count)
               /\ (app.game = "match" =>
                     mgm'.character_count = app.difficulty_selector.selected_count)
           /\ (app.running /\ ~app'.running) =>
               app'.difficulty_selector = app.difficulty_selector ]_vars

\* The count was raised to the maximum and confirmed: a game of ten
\* characters runs.
C16_Witness ==
    /\ app.game_phase = "playing"
    /\ app.difficulty_selector.selected_count = 10
    /\ app.character_count = 10

\* ============================================ GameManager.handle_click
\* The board cards whose rectangle (bounds inclusive) holds position.
GMCardsAt(g, position) ==
    { i \in 1..Len(g.cards) :
        contains_point(CardPositionPadded(i, Len(g.cards), 0, g.padding), position) }

\* C17: handle_click leaves the whole state of the manager as it is when
\* game_over is set, when flipped_cards holds two cards, when
\* waiting_to_flip_back is set, and when the position lies on no card or only
\* on cards that are face-up or matched; a second click on a face-up card is
\* therefore no attempt.
C17_IgnoredClicks ==
    \A position \in ClickPositionsPadded(Len(gm.cards), 0, gm.padding) :
      ( \/ gm.game_over
        \/ Len(gm.flipped_cards) = 2
        \/ gm.waiting_to_flip_back
        \/ \A i \in GMCardsAt(gm, position) : gm.cards[i].flipped \/ gm.cards[i].matched )
      => GMHandleClick(gm, position) = gm

\* One card is face-up and a click would be accepted: clicking that card
\* again is the case of the face-up card; a pair is matched already.
C17_Witness ==
    /\ Len(gm.flipped_cards) = 1
    /\ gm.cards[gm.flipped_cards[1]].flipped
    /\ ~gm.game_over
    /\ ~gm.waiting_to_flip_back
    /\ GMMatchedCards(gm) # {}

\* The cards whose flipped flag differs between the managers g and h.
GMFlippedChanged(g, h) == { i \in 1..Len(g.cards) : h.cards[i].flipped # g.cards[i].flipped }

\* The face-down unmatched cards whose rectangle holds position.
GMAcceptableAt(g, position) ==
    { i \in GMCardsAt(g, position) : ~g.cards[i].flipped /\ ~g.cards[i].matched }

RectsIntersect(p, q) ==
    /\ p[1] < q[1] + card_width  /\ q[1] < p[1] + card_width
    /\ p[2] < q[2] + card_height /\ q[2] < p[2] + card_height

\* C19: on the default 1024x768 screen with 150x200 cards and padding 30, for
\* every character count 5..10, no board card's rectangle intersects the
\* rectangle of the target card placed at y = 120.
C19_BoardClearOfTarget ==
    (app.game = "match" /\ app.game_phase = "playing") =>
      \A i \in 1..Len(mgm.cards) :
        ~RectsIntersect(CardPosition(i, Len(mgm.cards), match_y_offset), TargetPosition)

\* ================================================= GameManager liveness
\* C20: in the running game (update called in every pass of the loop, the
\* clock advancing), every mismatch on display leads to a state in which the
\* two cards are face-down again, flipped_cards is empty and
\* waiting_to_flip_back and is_mismatch are False, so that clicks are
\* accepted again.
C20_MismatchIsFlippedBack ==
    GMMismatchShown(gm) ~>
      /\ gm.flipped_cards = << >>
      /\ GMFaceUpUnmatched(gm) = {}
      /\ ~gm.waiting_to_flip_back
      /\ ~gm.is_mismatch
      /\ ~GMClickIgnored(gm)

\* A mismatch was shown for flip_delay and has been flipped back; a click on
\* a card is accepted again.
C20_Witness ==
    /\ gm.flip_back_time = gm.mismatch_time + flip_delay
    /\ now >= gm.flip_back_time
    /\ gm.attempts >= 1
    /\ gm.flipped_cards = << >>
    /\ ~gm.waiting_to_flip_back
    /\ ~gm.game_over
    /\ \E i \in 1..Len(gm.cards) :
         GMHandleClick(gm, CardPosition(i, Len(gm.cards), 0)).cards[i].flipped

\* ======================================== GameManager in the event loop
\* C21: in the game driven by the event loop (reset only through the R key
\* while game_over), waiting_to_flip_back is set only while flipped_cards
\* holds exactly two unmatched cards of different names, is_mismatch equals
\* waiting_to_flip_back after every update, and both are False whenever
\* game_over is set; a state that is not game over always leads to game over
\* or to a state in which a click on some card is accepted.
C21_LoopNeverStuck ==
    /\ [](gm.waiting_to_flip_back =>
            /\ Len(gm.flipped_cards) = 2
            /\ gm.flipped_cards[1] # gm.flipped_cards[2]
            /\ \A k \in 1..2 : ~gm.cards[gm.flipped_cards[k]].matched
            /\ gm.cards[gm.flipped_cards[1]].name # gm.cards[gm.flipped_cards[2]].name)
    /\ [](LET g == GMUpdate(gm, now) IN g.is_mismatch = g.waiting_to_flip_back)
    /\ [](gm.game_over => ~gm.waiting_to_flip_back /\ ~gm.is_mismatch)
    /\ (~gm.game_over) ~>
         \/ gm.game_over
         \/ /\ ~GMClickIgnored(gm)
            /\ \E i \in 1..Len(gm.cards) :
                 GMClickedCard(gm, CardPosition(i, Len(gm.cards), 0)) # 0

\* A game with a mismatch was played to the end and restarted with the R
\* key: the flip-back deadline of the old game is still recorded, nothing is
\* waiting and the new board takes clicks.
C21_Witness ==
    /\ gm.flip_back_time > 0
    /\ gm.attempts = 0
    /\ gm.score = 0
    /\ ~gm.game_over
    /\ ~gm.waiting_to_flip_back
    /\ ~gm.is_mismatch
    /\ Len(gm.cards) = 4

\* ============================================= GameManager bookkeeping
\* C22: flipped_cards holds exactly the cards of the board that are flipped
\* and not matched, none of them twice; the card a click accepts is never
\* the card already in flipped_cards, so no card is compared or matched with
\* itself.
C22_FlippedCardsExact ==
    /\ Range(gm.flipped_cards) = GMFaceUpUnmatched(gm)
    /\ Cardinality(Range(gm.flipped_cards)) = Len(gm.flipped_cards)
    /\ \A position \in ClickPositionsPadded(Len(gm.cards), 0, gm.padding) :
         LET c == GMClickedCard(gm, position)
             g == GMHandleClick(gm, position)
         IN  /\ c \notin Range(gm.flipped_cards)
             /\ Cardinality(GMMatchedCards(g) \ GMMatchedCards(gm)) \in {0, 2}

\* For the second time in a game a second card has been flipped next to a
\* first one: two different cards are in flipped_cards and face-up.
C22_Witness ==
    /\ Len(gm.flipped_cards) = 2
    /\ gm.flipped_cards[1] # gm.flipped_cards[2]
    /\ GMFaceUpUnmatched(gm) = Range(gm.flipped_cards)
    /\ gm.score = 0
    /\ gm.attempts = 2

\* C23: score is half the number of matched cards, 0 <= score <= attempts,
\* score is at most the number of pairs on the board, and the matched cards
\* of every name are none or two; a step other than reset lowers neither
\* score nor attempts and unmatches no card.
C23_ScoreCountsMatchedPairs ==
    /\ [](/\ 2 * gm.score = Cardinality(GMMatchedCards(gm))
          /\ 0 <= gm.score
          /\ gm.score <= gm.attempts
          /\ 2 * gm.score <= Len(gm.cards)
          /\ \A name \in { gm.cards[i].name : i \in DOMAIN gm.cards } :
               Cardinality({ i \in GMMatchedCards(gm) : gm.cards[i].name = name }) \in {0, 2})
    /\ [][ \/ /\ gm'.score >= gm.score
               /\ gm'.attempts >= gm.attempts
               /\ GMMatchedCards(gm) \subseteq GMMatchedCards(gm')
           \/ GMResetStep ]_vars

\* Both pairs of a board are matched after one mismatch: score 2 of 3
\* attempts.
C23_Witness ==
    /\ gm.score = 2
    /\ gm.attempts = 3
    /\ Cardinality(GMMatchedCards(gm)) = 4

====
